---- MODULE Spec2Model ----
(***************************************************************************)
(* Electra Smart integration: the climate entity (climate.py) and the      *)
(* phone/OTP setup flow (config_flow.py) as state machines.                *)
(*                                                                         *)
(* A poll (async_update) and a command (_async_update_electra_ac_state)    *)
(* are coroutines: each is split at its single await of the API client,    *)
(* so a poll and a command of the same entity may interleave there.        *)
(***************************************************************************)
EXTENDS Integers, Sequences, FiniteSets, TLC

VARIABLES
    phase,                  \* "setup": before async_setup_entry succeeded; "running": entity exists
    device,                 \* self._electra_ac_device (the vendor library's mutable device model)
    attrs,                  \* the display attributes self._attr_*
    last_state_update,      \* self._last_state_update
    consecutive_failures,   \* self._consecutive_failures
    attr_available,         \* self._attr_available
    skip_update,            \* self._skip_update
    available,              \* self._available
    now,                    \* int(time.time())
    pcPoll,                 \* position of async_update: "idle" or "fetching" (awaiting get_last_telemtry)
    pcCmd,                  \* position of a command: "idle" or "sending" (awaiting set_state)
    event,                  \* what the last step did and how it ended (observation only)
    request,                \* the setter whose set_state call is in flight, with its argument
    failRun,                \* observation: transport failures since the last poll that did not fail
    cmdsLeft,               \* commands the host may still issue
    lastWarn,               \* observation: the last availability warning logged ("none" before any)
    lastFound,              \* observation: whether the last completed poll found the device connected
    flow_result,            \* the setup flow's last FlowResult type: "none" before it starts
    step_id,                \* the step whose form is displayed
    form_errors,            \* the errors of the displayed form: <<>> or <<field, error>>
    phone_number,           \* ConfigFlow._phone_number
    imei,                   \* ConfigFlow._imei
    otp,                    \* ConfigFlow._otp
    token,                  \* ConfigFlow._token
    unique_id,              \* the flow's unique id
    entry,                  \* the data of the created configuration entry
    sent,                   \* observation: arguments of the last generate_new_token call
    flow_event              \* observation: the setup flow's last step and the API's answer

climateVars == <<phase, device, attrs, last_state_update, consecutive_failures,
                 attr_available, skip_update, available, now, pcPoll, pcCmd,
                 event, request, failRun, cmdsLeft, lastWarn, lastFound>>

flowVars == <<flow_result, step_id, form_errors, phone_number, imei, otp, token,
              unique_id, entry, sent, flow_event>>

vars == <<climateVars, flowVars>>

availVars == <<lastWarn, lastFound>>
entityVars == <<device, attrs, last_state_update, consecutive_failures,
                attr_available, skip_update, available>>

-----------------------------------------------------------------------------
(* Bounds of the model *)

\* polls may fail while the failure counter is below MaxFailures
MaxFailures == 5
\* commands the host issues to the entity
MaxCommands == 1

-----------------------------------------------------------------------------
(* Constants of const.py *)

API_DELAY == 5
CONSECUTIVE_FAILURE_THRESHOLD == 4
UNAVAILABLE_THRESH_SEC == 120
PRESET_NONE == "None"
PRESET_SHABAT == "Shabat"
CONF_PHONE_NUMBER == "phone_number"
CONF_OTP == "one_time_password"
CONF_IMEI == "imei"

-----------------------------------------------------------------------------
(* Vendor enums (electrasmart.device.OperationMode) and host enums *)

MODE_COOL == "COOL"
MODE_HEAT == "HEAT"
MODE_FAN == "FAN"
MODE_DRY == "DRY"
MODE_AUTO == "AUTO"
FAN_SPEED_AUTO == "AUTO"
FAN_SPEED_LOW == "LOW"
FAN_SPEED_MED == "MED"
FAN_SPEED_HIGH == "HIGH"

FAN_AUTO == "auto"
FAN_LOW == "low"
FAN_MEDIUM == "medium"
FAN_HIGH == "high"
SWING_BOTH == "both"
SWING_HORIZONTAL == "horizontal"
SWING_OFF == "off"
SWING_VERTICAL == "vertical"
HVACMode_OFF == "off"
HVACMode_HEAT == "heat"
HVACMode_COOL == "cool"
HVACMode_DRY == "dry"
HVACMode_FAN_ONLY == "fan_only"
HVACMode_AUTO == "auto"
HVACAction_OFF == "off"
HVACAction_COOLING == "cooling"
HVACAction_HEATING == "heating"
HVACAction_FAN == "fan"
HVACAction_DRYING == "drying"

\* Python's None, and a set attribute: every display attribute is None until
\* _update_device_attrs first runs.
Null == <<>>
Some(v) == <<v>>

\* a fan table with two speeds exchanged
FAN_ELECTRA_TO_HASS_Swapped ==
    (FAN_SPEED_AUTO :> FAN_AUTO) @@ (FAN_SPEED_LOW :> FAN_MEDIUM) @@
    (FAN_SPEED_MED :> FAN_LOW) @@ (FAN_SPEED_HIGH :> FAN_HIGH)

FAN_ELECTRA_TO_HASS ==
    (FAN_SPEED_AUTO :> FAN_AUTO) @@ (FAN_SPEED_LOW :> FAN_LOW) @@
    (FAN_SPEED_MED :> FAN_MEDIUM) @@ (FAN_SPEED_HIGH :> FAN_HIGH)

FAN_HASS_TO_ELECTRA ==
    (FAN_AUTO :> FAN_SPEED_AUTO) @@ (FAN_LOW :> FAN_SPEED_LOW) @@
    (FAN_MEDIUM :> FAN_SPEED_MED) @@ (FAN_HIGH :> FAN_SPEED_HIGH)

HVAC_MODE_ELECTRA_TO_HASS ==
    (MODE_COOL :> HVACMode_COOL) @@ (MODE_HEAT :> HVACMode_HEAT) @@
    (MODE_FAN :> HVACMode_FAN_ONLY) @@ (MODE_DRY :> HVACMode_DRY) @@
    (MODE_AUTO :> HVACMode_AUTO)

HVAC_MODE_HASS_TO_ELECTRA ==
    (HVACMode_COOL :> MODE_COOL) @@ (HVACMode_HEAT :> MODE_HEAT) @@
    (HVACMode_FAN_ONLY :> MODE_FAN) @@ (HVACMode_DRY :> MODE_DRY) @@
    (HVACMode_AUTO :> MODE_AUTO)

HVAC_ACTION_ELECTRA_TO_HASS ==
    (MODE_COOL :> HVACAction_COOLING) @@ (MODE_HEAT :> HVACAction_HEATING) @@
    (MODE_FAN :> HVACAction_FAN) @@ (MODE_DRY :> HVACAction_DRYING)

\* self._attr_fan_modes, self._attr_hvac_modes, self._attr_preset_modes
attr_fan_modes == {FAN_AUTO, FAN_HIGH, FAN_MEDIUM, FAN_LOW}
attr_hvac_modes == {HVACMode_OFF, HVACMode_HEAT, HVACMode_COOL, HVACMode_DRY,
                    HVACMode_FAN_ONLY, HVACMode_AUTO}
attr_preset_modes == {PRESET_NONE, PRESET_SHABAT}
attr_swing_modes == {SWING_VERTICAL, SWING_HORIZONTAL, SWING_BOTH, SWING_OFF}

-----------------------------------------------------------------------------
(* The vendor device model, as the entity reads and writes it *)

\* Operating state reported by the vendor cloud (without the contact age).
OperatingSamples ==
    { [is_on |-> TRUE,  mode |-> MODE_COOL, fan_speed |-> FAN_SPEED_LOW,
       temperature |-> 22, sensor_temperature |-> 25,
       horizontal_swing |-> FALSE, vertical_swing |-> FALSE, shabat_mode |-> FALSE],
      [is_on |-> FALSE, mode |-> MODE_AUTO, fan_speed |-> FAN_SPEED_AUTO,
       temperature |-> 23, sensor_temperature |-> 24,
       horizontal_swing |-> TRUE, vertical_swing |-> TRUE, shabat_mode |-> TRUE] }

\* Seconds since the device last contacted the cloud: at and just past the threshold.
TimeDeltas == {UNAVAILABLE_THRESH_SEC, UNAVAILABLE_THRESH_SEC + 1}

WithTimeDelta(s, td) ==
    [is_on |-> s.is_on, mode |-> s.mode, fan_speed |-> s.fan_speed,
     temperature |-> s.temperature, sensor_temperature |-> s.sensor_temperature,
     horizontal_swing |-> s.horizontal_swing, vertical_swing |-> s.vertical_swing,
     shabat_mode |-> s.shabat_mode, time_delta |-> td]

\* What api.get_devices() and api.get_last_telemtry() can deliver.
Telemetry == { WithTimeDelta(s, td) : s \in OperatingSamples, td \in TimeDeltas }

\* device.is_disconnected(thresh)
is_disconnected(d, thresh) == d.time_delta > thresh

\* Temperatures the host may request, in half degrees (kwargs[ATTR_TEMPERATURE] is a float).
TemperatureInputs == {44, 45}

\* int(x) of a non-negative float given in half degrees
PyInt(halves) == halves \div 2

-----------------------------------------------------------------------------
(* ElectraApiError messages: a message is a sequence of fragments *)

CLIENT_ERROR == "client error"
INTRUDER_LOCKOUT == "Intruder lockout"

ApiErrors ==
    { <<"timed out">>,
      <<CLIENT_ERROR>>,
      <<INTRUDER_LOCKOUT>>,
      <<INTRUDER_LOCKOUT, CLIENT_ERROR>> }

\* f"Error communicating with API: {exp}"
ErrMessage(exp) == <<"Error communicating with API: ">> \o exp

\* marker in err_message
Contains(msg, marker) == \E i \in DOMAIN msg : msg[i] = marker

-----------------------------------------------------------------------------
(* Observation of a step *)

\* op: the operation that took the step; outcome: how it ended; warn: the
\* availability warning it logged; wrote: whether it called _async_write_ha_state;
\* msg: the ElectraApiError it caught (<<>> when none); req: the setter a finished
\* command was called through, with its argument; written: the display attributes
\* the host read when the step called _async_write_ha_state (<<>> when it did not);
\* steps: the statements a command executed after its await, in order.
Ev(op, outcome, warn, wrote, msg) ==
    [op |-> op, outcome |-> outcome, warn |-> warn, wrote |-> wrote, msg |-> msg,
     resp |-> <<>>, req |-> <<>>, written |-> <<>>, steps |-> <<>>]

\* the step that ends a command also records set_state's response (<<>> when it
\* raised) and the setter that was called
EvCmd(outcome, written, steps, msg, resp, req) ==
    [op |-> "set_state", outcome |-> outcome, warn |-> "none", wrote |-> written # <<>>,
     msg |-> msg, resp |-> resp, req |-> req, written |-> written, steps |-> steps]

NoMsg == <<>>
NoReq == <<>>

-----------------------------------------------------------------------------
(* ElectraClimate *)

STATUS_SUCCESS == 0
StatusCodes == {STATUS_SUCCESS, STATUS_SUCCESS + 1}

\* A response of set_state: resp[Attributes.STATUS], resp[Attributes.DATA][Attributes.RES]
Responses == [status : StatusCodes, res : StatusCodes]

NoAttrs ==
    [fan_mode |-> Null, current_temperature |-> Null, target_temperature |-> Null,
     hvac_mode |-> Null, hvac_action |-> Null, swing_mode |-> Null, preset_mode |-> Null]

\* a swing derivation that tests one axis before it tests both
DerivedSwingMode_AxisFirst(d) ==
    IF d.horizontal_swing THEN SWING_HORIZONTAL
    ELSE IF d.horizontal_swing /\ d.vertical_swing THEN SWING_BOTH
    ELSE IF d.vertical_swing THEN SWING_VERTICAL
    ELSE SWING_OFF

\* _update_device_attrs: self._attr_swing_mode
DerivedSwingMode(d) ==
    IF d.horizontal_swing /\ d.vertical_swing THEN SWING_BOTH
    ELSE IF d.horizontal_swing THEN SWING_HORIZONTAL
    ELSE IF d.vertical_swing THEN SWING_VERTICAL
    ELSE SWING_OFF

\* _update_device_attrs: self._attr_hvac_mode
DerivedHvacMode(d) ==
    IF ~d.is_on THEN HVACMode_OFF ELSE HVAC_MODE_ELECTRA_TO_HASS[d.mode]

\* _update_device_attrs: self._attr_hvac_action (Null is Python's None)
DerivedHvacAction(d) ==
    IF d.mode = MODE_AUTO THEN Null
    ELSE Some(IF ~d.is_on THEN HVACAction_OFF
              ELSE HVAC_ACTION_ELECTRA_TO_HASS[d.mode])

\* _update_device_attrs
UpdateDeviceAttrs(d) ==
    [fan_mode |-> Some(FAN_ELECTRA_TO_HASS[d.fan_speed]),
     current_temperature |-> Some(d.sensor_temperature),
     target_temperature |-> Some(d.temperature),
     hvac_mode |-> Some(DerivedHvacMode(d)),
     hvac_action |-> DerivedHvacAction(d),
     swing_mode |-> Some(DerivedSwingMode(d)),
     preset_mode |-> Some(IF d.shabat_mode THEN PRESET_SHABAT ELSE PRESET_NONE)]

\* a skip test that forgets the clock
InSkipWindow_NoExpiry(last, t) == last # 0

\* a skip test that forgets the delay
InSkipWindow_NoDelay(last, t) == last # 0 /\ t < last

\* the condition under which async_update returns at once
InSkipWindow(last, t) == last # 0 /\ t < last + API_DELAY

\* a threshold test that is off by one
RaisesHardError_Strict(n) == n > CONSECUTIVE_FAILURE_THRESHOLD

\* whether the failure that brings the counter to n is raised to the host
RaisesHardError(n) == n >= CONSECUTIVE_FAILURE_THRESHOLD

\* a connectivity test that warns at every poll of a disconnected device
AvailabilityWarning_EveryPoll(disconnected, avail) ==
    IF disconnected THEN "not_available"
    ELSE IF ~avail THEN "now_available" ELSE "none"

\* the availability warning async_update logs, avail being self._available
AvailabilityWarning(disconnected, avail) ==
    IF disconnected
    THEN IF avail THEN "not_available" ELSE "none"
    ELSE IF ~avail THEN "now_available" ELSE "none"

\* a connectivity check that never marks the entity available again
AttrAvailableAfter_NoRecovery(disconnected, avail, attr_avail) ==
    IF disconnected THEN FALSE ELSE attr_avail

\* self._attr_available after the connectivity check of async_update, avail and
\* attr_avail being self._available and self._attr_available before it
AttrAvailableAfter(disconnected, avail, attr_avail) ==
    IF disconnected THEN FALSE
    ELSE IF ~avail THEN TRUE ELSE attr_avail

\* async_update from the connectivity check on, d being the device model it reads
AfterTelemetry(d) ==
    LET disconnected == is_disconnected(d, UNAVAILABLE_THRESH_SEC)
        warn == AvailabilityWarning(disconnected, available)
    IN
    /\ lastWarn' = (IF warn # "none" THEN warn ELSE lastWarn)
    /\ lastFound' = Some(~disconnected)
    /\ attr_available' = AttrAvailableAfter(disconnected, available, attr_available)
    /\ IF disconnected
       THEN /\ available' = FALSE
            /\ event' = Ev("async_update", "unavailable", warn, FALSE, NoMsg)
            /\ UNCHANGED <<attrs, consecutive_failures>>
       ELSE /\ available' = TRUE
            /\ consecutive_failures' = 0
            /\ attrs' = UpdateDeviceAttrs(d)
            /\ event' = Ev("async_update", "updated", warn, FALSE, NoMsg)

\* async_update up to its await (or to its end when it does not await)
AsyncUpdate ==
    /\ phase = "running"
    /\ pcPoll = "idle"
    /\ IF InSkipWindow(last_state_update, now)
       THEN /\ event' = Ev("async_update", "skipped", "none", FALSE, NoMsg)
            /\ UNCHANGED <<entityVars, pcPoll, failRun, availVars>>
       ELSE /\ last_state_update' = 0
            /\ IF skip_update
               THEN /\ skip_update' = FALSE
                    /\ AfterTelemetry(device)
                    /\ failRun' = 0
                    /\ UNCHANGED <<device, pcPoll>>
               ELSE /\ pcPoll' = "fetching"
                    /\ event' = Ev("async_update", "fetching", "none", FALSE, NoMsg)
                    /\ UNCHANGED <<device, attrs, consecutive_failures, attr_available,
                                   skip_update, available, failRun, availVars>>
    /\ UNCHANGED <<phase, now, pcCmd, request, cmdsLeft,
                   flowVars>>

\* get_last_telemtry returns: the library has written the cloud's state into the device
TelemetryReturns(s) ==
    /\ pcPoll = "fetching"
    /\ pcPoll' = "idle"
    /\ device' = s
    /\ AfterTelemetry(s)
    /\ failRun' = 0
    /\ UNCHANGED <<phase, last_state_update, skip_update, now, pcCmd, request, cmdsLeft,
                   flowVars>>

\* get_last_telemtry raises ElectraApiError(exp)
TelemetryFails(exp) ==
    /\ pcPoll = "fetching"
    /\ consecutive_failures < MaxFailures
    /\ pcPoll' = "idle"
    /\ consecutive_failures' = consecutive_failures + 1
    /\ failRun' = failRun + 1
    /\ event' = Ev("async_update",
                   IF RaisesHardError(consecutive_failures + 1)
                   THEN "HomeAssistantError" ELSE "swallowed",
                   "none", FALSE, exp)
    /\ UNCHANGED <<phase, device, attrs, last_state_update, attr_available,
                   skip_update, available, now, pcCmd, request, cmdsLeft,
                   availVars, flowVars>>

\* the setters: each mutates the device model, then awaits set_state. The host
\* adds the entity, and so can call its setters, only after the entity's first
\* update: async_add_entities(..., True).
BeginSetState(d, req) ==
    /\ phase = "running"
    /\ ~skip_update
    /\ pcCmd = "idle"
    /\ cmdsLeft > 0
    /\ cmdsLeft' = cmdsLeft - 1
    /\ device' = d
    /\ request' = req
    /\ pcCmd' = "sending"
    /\ event' = Ev(req[1], "sending", "none", FALSE, NoMsg)
    /\ UNCHANGED <<phase, attrs, last_state_update, consecutive_failures,
                   attr_available, skip_update, available, now, pcPoll, failRun,
                   availVars, flowVars>>

async_set_fan_mode(fan_mode) ==
    BeginSetState([device EXCEPT !.fan_speed = FAN_HASS_TO_ELECTRA[fan_mode]],
                  <<"async_set_fan_mode", fan_mode>>)

async_set_hvac_mode(hvac_mode) ==
    BeginSetState(IF hvac_mode = HVACMode_OFF
                  THEN [device EXCEPT !.is_on = FALSE]
                  ELSE [device EXCEPT !.mode = HVAC_MODE_HASS_TO_ELECTRA[hvac_mode],
                                      !.is_on = TRUE],
                  <<"async_set_hvac_mode", hvac_mode>>)

async_set_temperature(halves) ==
    BeginSetState([device EXCEPT !.temperature = PyInt(halves)],
                  <<"async_set_temperature", halves>>)

\* a swing setter that crosses the two axes
async_set_swing_mode_Crossed(swing_mode) ==
    BeginSetState(IF swing_mode = SWING_BOTH
                  THEN [device EXCEPT !.horizontal_swing = TRUE, !.vertical_swing = TRUE]
                  ELSE IF swing_mode = SWING_VERTICAL
                  THEN [device EXCEPT !.horizontal_swing = TRUE, !.vertical_swing = FALSE]
                  ELSE IF swing_mode = SWING_HORIZONTAL
                  THEN [device EXCEPT !.horizontal_swing = FALSE, !.vertical_swing = TRUE]
                  ELSE [device EXCEPT !.horizontal_swing = FALSE, !.vertical_swing = FALSE],
                  <<"async_set_swing_mode", swing_mode>>)

async_set_swing_mode(swing_mode) ==
    BeginSetState(IF swing_mode = SWING_BOTH
                  THEN [device EXCEPT !.horizontal_swing = TRUE, !.vertical_swing = TRUE]
                  ELSE IF swing_mode = SWING_VERTICAL
                  THEN [device EXCEPT !.horizontal_swing = FALSE, !.vertical_swing = TRUE]
                  ELSE IF swing_mode = SWING_HORIZONTAL
                  THEN [device EXCEPT !.horizontal_swing = TRUE, !.vertical_swing = FALSE]
                  ELSE [device EXCEPT !.horizontal_swing = FALSE, !.vertical_swing = FALSE],
                  <<"async_set_swing_mode", swing_mode>>)

async_set_preset_mode(preset_mode) ==
    BeginSetState([device EXCEPT !.shabat_mode = (preset_mode = PRESET_SHABAT)],
                  <<"async_set_preset_mode", preset_mode>>)

\* how _async_update_electra_ac_state ends when set_state raises ElectraApiError(exp)
SetStateErrorOutcome(exp) ==
    LET err_message == ErrMessage(exp) IN
    IF Contains(err_message, CLIENT_ERROR) THEN "HomeAssistantError"
    ELSE IF Contains(err_message, INTRUDER_LOCKOUT) THEN "ConfigEntryAuthFailed"
    ELSE "returned"

\* an acknowledgment test that reads the inner result alone
AckSuccess_ResOnly(resp) == resp.res = STATUS_SUCCESS

\* an acknowledgment test that reads the outer status alone
AckSuccess_StatusOnly(resp) == resp.status = STATUS_SUCCESS

\* resp[STATUS] == STATUS_SUCCESS and resp[DATA][RES] == STATUS_SUCCESS
AckSuccess(resp) == resp.status = STATUS_SUCCESS /\ resp.res = STATUS_SUCCESS

\* a success path that asks the host to write state before it re-derives the attributes
OnAcknowledged_WriteFirst(a, d, t) ==
    [attrs |-> UpdateDeviceAttrs(d), last_state_update |-> t, written |-> a,
     steps |-> <<"_async_write_ha_state", "_update_device_attrs", "_last_state_update">>]

\* the statements after a successful acknowledgment, a being the display attributes
\* before them, d the device model and t the clock: what they leave in the
\* attributes and the timestamp, and what the host reads when it is asked to write
OnAcknowledged(a, d, t) ==
    [attrs |-> UpdateDeviceAttrs(d), last_state_update |-> t,
     written |-> UpdateDeviceAttrs(d),
     steps |-> <<"_update_device_attrs", "_last_state_update", "_async_write_ha_state">>]

\* set_state raises ElectraApiError(exp)
SetStateFails(exp) ==
    /\ pcCmd = "sending"
    /\ pcCmd' = "idle"
    /\ request' = NoReq
    /\ event' = IF SetStateErrorOutcome(exp) = "returned"
                 THEN EvCmd("returned", Some(attrs), <<"_async_write_ha_state">>,
                            exp, Null, request)
                 ELSE EvCmd(SetStateErrorOutcome(exp), Null, <<"raise">>,
                            exp, Null, request)
    /\ UNCHANGED <<phase, entityVars, now, pcPoll, failRun, cmdsLeft,
                   availVars, flowVars>>

\* set_state returns resp
SetStateReturns(resp) ==
    /\ pcCmd = "sending"
    /\ pcCmd' = "idle"
    /\ IF ~AckSuccess(resp)
       THEN /\ event' = EvCmd("HomeAssistantError", Some(attrs),
                              <<"_async_write_ha_state", "raise">>,
                              NoMsg, Some(resp), request)
            /\ UNCHANGED <<attrs, last_state_update>>
       ELSE LET r == OnAcknowledged(attrs, device, now) IN
            /\ attrs' = r.attrs
            /\ last_state_update' = r.last_state_update
            /\ event' = EvCmd("acknowledged", Some(r.written), r.steps,
                              NoMsg, Some(resp), request)
    /\ request' = NoReq
    /\ UNCHANGED <<phase, device, consecutive_failures, attr_available, skip_update,
                   available, now, pcPoll, failRun, cmdsLeft,
                   availVars, flowVars>>

-----------------------------------------------------------------------------
(* async_setup_entry / get_devices *)

\* how get_devices ends when api.get_devices raises ElectraApiError(exp)
GetDevicesErrorOutcome(exp) ==
    LET err_message == ErrMessage(exp) IN
    IF Contains(err_message, CLIENT_ERROR) THEN "ConfigEntryNotReady"
    ELSE IF Contains(err_message, INTRUDER_LOCKOUT) THEN "ConfigEntryAuthFailed"
    ELSE "ConfigEntryNotReady"

\* api.get_devices raises: the entry is not set up (the host may retry)
GetDevicesFails(exp) ==
    /\ phase = "setup"
    /\ event' = Ev("get_devices", GetDevicesErrorOutcome(exp), "none", FALSE, exp)
    /\ UNCHANGED <<phase, entityVars, now, pcPoll, pcCmd, request, failRun, cmdsLeft,
                   availVars, flowVars>>

\* api.get_devices returns a device d: ElectraClimate.__init__(d, api)
GetDevicesReturns(d) ==
    /\ phase = "setup"
    /\ phase' = "running"
    /\ device' = d
    /\ attrs' = NoAttrs
    /\ last_state_update' = 0
    /\ consecutive_failures' = 0
    /\ attr_available' = ~is_disconnected(d, UNAVAILABLE_THRESH_SEC)
    /\ skip_update' = TRUE
    /\ available' = TRUE
    /\ event' = Ev("get_devices", "added", "none", FALSE, NoMsg)
    /\ lastWarn' = "none"
    /\ lastFound' = Null
    /\ UNCHANGED <<now, pcPoll, pcCmd, request, failRun, cmdsLeft,
                   flowVars>>

\* A second of wall-clock time passes. The entity reads the clock only to compare
\* it with an open skip window, so time is advanced only while a window is open.
Tick ==
    /\ last_state_update # 0
    /\ now < last_state_update + API_DELAY
    /\ now' = now + 1
    /\ event' = Ev("tick", "none", "none", FALSE, NoMsg)
    /\ UNCHANGED <<phase, entityVars, pcPoll, pcCmd, request, failRun, cmdsLeft,
                   availVars, flowVars>>

-----------------------------------------------------------------------------

-----------------------------------------------------------------------------
(* ConfigFlow (config_flow.py) *)

\* what the user may type, what generate_imei may return, what the API may issue
PhoneNumbers == {"0521111111", "0522222222"}
Imeis == {"2b950000a", "2b950000b"}
Otps == {"1234", "5678"}
Tokens == {"tokenA", "tokenB"}

\* phone numbers of the configuration entries that already exist
ConfiguredPhones == {"0522222222"}

\* responses of generate_new_token and validate_one_time_password
TokenResponses == [status : StatusCodes, res : StatusCodes]
OtpResponses == [status : StatusCodes, res : StatusCodes, token : Tokens]

FlowEv(op, api, resp) == [op |-> op, api |-> api, resp |-> resp]
NoResp == <<>>

\* _show_setup_form / _show_otp_form: async_show_form(step_id, errors)
ShowForm(step, errors) ==
    /\ flow_result' = "form"
    /\ step_id' = step
    /\ form_errors' = errors

\* async_step_user(None): the flow starts by showing the phone-number form
async_step_user ==
    /\ flow_result = "none"
    /\ ShowForm("user", <<>>)
    /\ flow_event' = FlowEv("async_step_user", "none", NoResp)
    /\ UNCHANGED <<phone_number, imei, otp, token, unique_id, entry, sent, climateVars>>

\* whether _validate_phone_number runs the already-configured check
ChecksUniqueId(uid) == uid = Null

\* the outcome of the token request's acknowledgment in _validate_phone_number
PhoneRejected(resp) == resp.status = STATUS_SUCCESS /\ resp.res # STATUS_SUCCESS

\* _validate_phone_number up to the token request: the fields it sets and the
\* already-configured check; aborts is whether the check aborts the flow
PhoneStepBegins(phone, new_imei) ==
    /\ flow_result = "form"
    /\ step_id = "user"
    /\ phone_number' = Some(phone)
    /\ imei' = Some(new_imei)
    /\ unique_id' = IF ChecksUniqueId(unique_id) THEN Some(phone) ELSE unique_id

PhoneStepAborts(phone) == ChecksUniqueId(unique_id) /\ phone \in ConfiguredPhones

\* async_step_user(user_input) aborted by _abort_if_unique_id_configured
SubmitPhoneAborted(phone, new_imei) ==
    /\ PhoneStepBegins(phone, new_imei)
    /\ PhoneStepAborts(phone)
    /\ flow_result' = "abort"
    /\ flow_event' = FlowEv("submit_phone", "not_called", NoResp)
    /\ UNCHANGED <<step_id, form_errors, otp, token, entry, sent, climateVars>>

\* an OTP step that sends the user back to the phone-number form
OtpTransportErrorForm_WrongStep == <<"user", <<"base", "cannot_connect">>>>

\* the form (step, errors) each step shows when its API call raises ElectraApiError
PhoneTransportErrorForm == <<"user", <<"base", "cannot_connect">>>>
OtpTransportErrorForm == <<CONF_OTP, <<"base", "cannot_connect">>>>

\* async_step_user(user_input): generate_new_token raises ElectraApiError
SubmitPhoneFails(phone, new_imei, exp) ==
    /\ PhoneStepBegins(phone, new_imei)
    /\ ~PhoneStepAborts(phone)
    /\ sent' = <<phone, new_imei>>
    /\ ShowForm(PhoneTransportErrorForm[1], PhoneTransportErrorForm[2])
    /\ flow_event' = FlowEv("submit_phone", "error", exp)
    /\ UNCHANGED <<otp, token, entry, climateVars>>

\* async_step_user(user_input): generate_new_token returns resp
SubmitPhoneReturns(phone, new_imei, resp) ==
    /\ PhoneStepBegins(phone, new_imei)
    /\ ~PhoneStepAborts(phone)
    /\ sent' = <<phone, new_imei>>
    /\ IF PhoneRejected(resp)
       THEN ShowForm("user", <<CONF_PHONE_NUMBER, "invalid_phone_number">>)
       ELSE ShowForm(CONF_OTP, <<>>)
    /\ flow_event' = FlowEv("submit_phone", "returned", resp)
    /\ UNCHANGED <<otp, token, entry, climateVars>>

\* async_step_one_time_password(user_input): validate_one_time_password raises
SubmitOtpFails(code, exp) ==
    /\ flow_result = "form"
    /\ step_id = CONF_OTP
    /\ otp' = Some(code)
    /\ ShowForm(OtpTransportErrorForm[1], OtpTransportErrorForm[2])
    /\ flow_event' = FlowEv("submit_otp", "error", exp)
    /\ UNCHANGED <<phone_number, imei, token, unique_id, entry, sent, climateVars>>

\* the acknowledgment test of _validate_one_time_password
OtpAccepted(resp) == resp.res = STATUS_SUCCESS

\* async_step_one_time_password(user_input): validate_one_time_password returns resp
SubmitOtpReturns(code, resp) ==
    /\ flow_result = "form"
    /\ step_id = CONF_OTP
    /\ otp' = Some(code)
    /\ IF OtpAccepted(resp)
       THEN /\ token' = Some(resp.token)
            /\ entry' = Some([token |-> resp.token, imei |-> imei[1],
                              phone_number |-> phone_number[1]])
            /\ flow_result' = "create_entry"
            /\ UNCHANGED <<step_id, form_errors>>
       ELSE /\ ShowForm(CONF_OTP, <<CONF_OTP, "invalid_auth">>)
            /\ UNCHANGED <<token, entry>>
    /\ flow_event' = FlowEv("submit_otp", "returned", resp)
    /\ UNCHANGED <<phone_number, imei, unique_id, sent, climateVars>>

-----------------------------------------------------------------------------

\* before setup there is no entity: its fields hold placeholders until __init__ runs
NoDevice == WithTimeDelta(CHOOSE s \in OperatingSamples : TRUE, UNAVAILABLE_THRESH_SEC)

InitRest ==
    /\ last_state_update = 0
    /\ consecutive_failures = 0
    /\ attr_available = TRUE
    /\ available = TRUE
    /\ now = 1
    /\ pcPoll = "idle"
    /\ pcCmd = "idle"
    /\ event = Ev("init", "none", "none", FALSE, NoMsg)
    /\ request = NoReq
    /\ failRun = 0
    /\ cmdsLeft = MaxCommands
    /\ lastWarn = "none"
    /\ lastFound = Null
    /\ flow_result = "none"
    /\ step_id = "user"
    /\ form_errors = <<>>
    /\ phone_number = Null
    /\ imei = Null
    /\ otp = Null
    /\ token = Null
    /\ unique_id = Null
    /\ entry = Null
    /\ sent = Null
    /\ flow_event = FlowEv("init", "none", NoResp)

Init ==
    /\ phase = "setup"
    /\ device = NoDevice
    /\ attrs = NoAttrs
    /\ skip_update = TRUE
    /\ InitRest

\* what the host asks of the entity in the entity's life cycle
RequestedFanModes == {FAN_MEDIUM}
RequestedHvacModes == {HVACMode_OFF, HVACMode_HEAT}
RequestedTemperatures == {45}
RequestedSwingModes == {SWING_VERTICAL}
RequestedPresets == {PRESET_SHABAT}

\* the life cycle of one climate entity (no setup flow runs meanwhile)
Next ==
    \/ \E exp \in ApiErrors : GetDevicesFails(exp)
    \/ \E d \in Telemetry : GetDevicesReturns(d)
    \/ AsyncUpdate
    \/ \E s \in Telemetry : TelemetryReturns(s)
    \/ \E exp \in ApiErrors : TelemetryFails(exp)
    \/ \E f \in RequestedFanModes : async_set_fan_mode(f)
    \/ \E m \in RequestedHvacModes : async_set_hvac_mode(m)
    \/ \E t \in RequestedTemperatures : async_set_temperature(t)
    \/ \E sw \in RequestedSwingModes : async_set_swing_mode(sw)
    \/ \E p \in RequestedPresets : async_set_preset_mode(p)
    \/ \E exp \in ApiErrors : SetStateFails(exp)
    \/ \E resp \in Responses : SetStateReturns(resp)
    \/ Tick

Spec == Init /\ [][Next]_vars

\* Telemetry for the entity's timing: one operating state, connected and not
LiveTelemetry ==
    { WithTimeDelta(CHOOSE x \in OperatingSamples : x.is_on, td) : td \in TimeDeltas }

\* an awaited get_last_telemtry call ends, by returning or by raising
FetchEnds ==
    \/ \E s \in LiveTelemetry : TelemetryReturns(s)
    \/ TelemetryFails(<<"timed out">>)

\* The entity's life cycle as far as its clock and its skip window go. Every
\* setter reaches set_state through _async_update_electra_ac_state, so two
\* setters stand for the five.
NextLive ==
    \/ \E exp \in ApiErrors : GetDevicesFails(exp)
    \/ \E d \in LiveTelemetry : GetDevicesReturns(d)
    \/ AsyncUpdate
    \/ FetchEnds
    \/ \E f \in RequestedFanModes : async_set_fan_mode(f)
    \/ \E t \in RequestedTemperatures : async_set_temperature(t)
    \/ \E exp \in ApiErrors : SetStateFails(exp)
    \/ \E resp \in Responses : SetStateReturns(resp)
    \/ Tick

\* The entity with the scheduling the host and the API client provide: the clock
\* advances, the host keeps calling async_update every SCAN_INTERVAL, and an
\* awaited telemetry call ends.
SpecLive ==
    /\ Init /\ [][NextLive]_vars
    /\ WF_vars(Tick)
    /\ WF_vars(AsyncUpdate)
    /\ WF_vars(FetchEnds)

\* Device states the cloud may hold when the host starts issuing commands: every
\* power, mode and fan speed, on top of the sampled operating states.
CommandedDevices ==
    { [d EXCEPT !.is_on = o, !.mode = m, !.fan_speed = f] :
        d \in { t \in Telemetry : ~is_disconnected(t, UNAVAILABLE_THRESH_SEC) },
        o \in BOOLEAN,
        m \in DOMAIN HVAC_MODE_ELECTRA_TO_HASS,
        f \in DOMAIN FAN_ELECTRA_TO_HASS }

\* the entity after its first poll found the device d connected
InitSetters ==
    /\ InitRest
    /\ phase = "running"
    /\ device \in CommandedDevices
    /\ attrs = UpdateDeviceAttrs(device)
    /\ skip_update = FALSE

\* every request the host can make of the entity, with set_state's answers
NextSetters ==
    \/ \E f \in attr_fan_modes : async_set_fan_mode(f)
    \/ \E m \in attr_hvac_modes : async_set_hvac_mode(m)
    \/ \E t \in TemperatureInputs : async_set_temperature(t)
    \/ \E sw \in attr_swing_modes : async_set_swing_mode(sw)
    \/ \E p \in attr_preset_modes : async_set_preset_mode(p)
    \/ \E exp \in ApiErrors : SetStateFails(exp)
    \/ \E resp \in Responses : SetStateReturns(resp)

SpecSetters == InitSetters /\ [][NextSetters]_vars

\* one run of the setup flow
NextFlow ==
    \/ async_step_user
    \/ \E p \in PhoneNumbers, i \in Imeis : SubmitPhoneAborted(p, i)
    \/ \E p \in PhoneNumbers, i \in Imeis, exp \in ApiErrors : SubmitPhoneFails(p, i, exp)
    \/ \E p \in PhoneNumbers, i \in Imeis, resp \in TokenResponses :
           SubmitPhoneReturns(p, i, resp)
    \/ \E c \in Otps, exp \in ApiErrors : SubmitOtpFails(c, exp)
    \/ \E c \in Otps, resp \in OtpResponses : SubmitOtpReturns(c, resp)

SpecFlow == Init /\ [][NextFlow]_vars

-----------------------------------------------------------------------------
(* Properties of the climate entity *)

\* C1: a poll that starts while a successful command's timestamp is recorded and
\* the clock is before that timestamp plus API_DELAY ends at once: it starts no
\* telemetry fetch and leaves the display attributes, the availability flag, the
\* consecutive-failure counter, the device model and the timestamp as they were.
C1_SkippedPollChangesNothing ==
    [][ ( /\ phase = "running"
          /\ pcPoll = "idle"
          /\ event'.op = "async_update"
          /\ last_state_update # 0
          /\ now < last_state_update + API_DELAY )
        => /\ event'.outcome = "skipped"
           /\ pcPoll' = "idle"
           /\ UNCHANGED <<attrs, attr_available, consecutive_failures,
                          device, last_state_update>> ]_vars

\* a poll was skipped inside the window while earlier failures were counted
C1_Witness ==
    /\ event.op = "async_update"
    /\ event.outcome = "skipped"
    /\ last_state_update # 0
    /\ now < last_state_update + API_DELAY
    /\ consecutive_failures > 0
    /\ attrs # NoAttrs

\* a poll has just ended in a transport failure
PollJustFailed ==
    /\ event.op = "async_update"
    /\ event.msg # NoMsg

\* C2 as stated: a failing poll raises exactly when CONSECUTIVE_FAILURE_THRESHOLD
\* consecutive failures preceded it (failRun counts the failing poll itself).
C2_RaisesAfterThresholdFailures ==
    PollJustFailed =>
        (event.outcome = "HomeAssistantError"
            <=> failRun - 1 = CONSECUTIVE_FAILURE_THRESHOLD)

\* C2 amended: a failing poll raises exactly when the consecutive-failure counter,
\* counting that failure, has reached CONSECUTIVE_FAILURE_THRESHOLD; so the
\* THRESHOLD-th failure of a run raises, as does every later one, and a failure is
\* swallowed only when fewer than THRESHOLD-1 failures of the run preceded it.
C2_RaisesFromThresholdthFailure ==
    PollJustFailed =>
        /\ event.outcome \in {"HomeAssistantError", "swallowed"}
        /\ event.outcome = "HomeAssistantError"
              <=> consecutive_failures >= CONSECUTIVE_FAILURE_THRESHOLD
        /\ failRun >= CONSECUTIVE_FAILURE_THRESHOLD
              => event.outcome = "HomeAssistantError"
        /\ event.outcome = "swallowed"
              => failRun - 1 < CONSECUTIVE_FAILURE_THRESHOLD - 1

\* the THRESHOLD-th failure of an uninterrupted run has just been raised
C2_Witness ==
    /\ PollJustFailed
    /\ event.outcome = "HomeAssistantError"
    /\ failRun = CONSECUTIVE_FAILURE_THRESHOLD
    /\ consecutive_failures = CONSECUTIVE_FAILURE_THRESHOLD

\* C3 as stated: an API error of device discovery or of a command push whose
\* message contains the lockout marker ends in ConfigEntryAuthFailed, whatever
\* else the message contains.
C3_LockoutAlwaysReauth ==
    ( /\ event.op \in {"get_devices", "set_state"}
      /\ Contains(event.msg, INTRUDER_LOCKOUT) )
    => event.outcome = "ConfigEntryAuthFailed"

\* C4: the display attributes change only in a step that completes a poll without
\* a transport failure (device reachable) or that receives a successful
\* acknowledgment of a command; every other step leaves them as they were.
C4_AttrsChangeOnlyOnSuccess ==
    [][ attrs' # attrs =>
          \/ /\ event'.op = "async_update"
             /\ event'.msg = NoMsg
             /\ event'.outcome = "updated"
          \/ /\ event'.op = "set_state"
             /\ event'.msg = NoMsg
             /\ event'.resp = Some([status |-> STATUS_SUCCESS, res |-> STATUS_SUCCESS])
      ]_vars

\* a negatively acknowledged command left stale attributes beside a mutated device
C4_Witness ==
    /\ event.op = "set_state"
    /\ event.resp # Null
    /\ event.outcome = "HomeAssistantError"
    /\ attrs # NoAttrs
    /\ attrs # UpdateDeviceAttrs(device)

\* C5 as stated: a command whose set_state call raises ElectraApiError raises an
\* error to the host, for every message, and does not re-derive the attributes.
C5_TransportErrorAlwaysRaises ==
    [][ ( /\ pcCmd = "sending"
          /\ event'.op = "set_state"
          /\ event'.msg # NoMsg )
        => /\ event'.outcome \in {"HomeAssistantError", "ConfigEntryAuthFailed"}
           /\ attrs' = attrs ]_vars

\* C6 as stated: a lockout error raised by the telemetry fetch of a poll ends the
\* poll in ConfigEntryAuthFailed; it is not counted and swallowed.
C6_PollLockoutIsFatal ==
    ( /\ event.op = "async_update"
      /\ Contains(event.msg, INTRUDER_LOCKOUT) )
    => event.outcome = "ConfigEntryAuthFailed"

-----------------------------------------------------------------------------
(* Properties of the setup flow *)

\* an acknowledgment is successful when its outer status and its inner result are
AckIsSuccess(resp) == resp.status = STATUS_SUCCESS /\ resp.res = STATUS_SUCCESS

\* C7 as stated: a configuration entry exists only after an OTP validation whose
\* acknowledgment was successful, and it holds that validation's token with the
\* IMEI and the phone number sent in the flow's most recent token request.
C7_EntryOnlyFromSuccessfulOtp ==
    entry # Null =>
        /\ flow_result = "create_entry"
        /\ flow_event.op = "submit_otp"
        /\ flow_event.api = "returned"
        /\ AckIsSuccess(flow_event.resp)
        /\ entry[1].token = flow_event.resp.token
        /\ sent # Null
        /\ entry[1].phone_number = sent[1]
        /\ entry[1].imei = sent[2]

\* C8 as stated: an acknowledgment that is not a success makes the step show its
\* own form again with its field error; the flow neither advances, nor creates an
\* entry, nor aborts.
C8_NegativeAckRedisplaysStep ==
    ( /\ flow_event.api = "returned"
      /\ ~AckIsSuccess(flow_event.resp) )
    => /\ flow_result = "form"
       /\ entry = Null
       /\ flow_event.op = "submit_phone" =>
             /\ step_id = "user"
             /\ form_errors = <<CONF_PHONE_NUMBER, "invalid_phone_number">>
       /\ flow_event.op = "submit_otp" =>
             /\ step_id = CONF_OTP
             /\ form_errors = <<CONF_OTP, "invalid_auth">>

\* C9: after a transport error of a step's API call the flow shows that step's
\* form with the base error cannot_connect, has no entry, is not aborted, and the
\* same step accepts any input again, whatever phone number or code is typed.
C9_TransportErrorRedisplaysStep ==
    flow_event.api = "error" =>
        /\ flow_result = "form"
        /\ form_errors = <<"base", "cannot_connect">>
        /\ entry = Null
        /\ flow_event.op = "submit_phone" =>
             /\ step_id = "user"
             /\ \A p \in PhoneNumbers :
                   ENABLED (\E i \in Imeis, exp \in ApiErrors : SubmitPhoneFails(p, i, exp))
        /\ flow_event.op = "submit_otp" =>
             /\ step_id = CONF_OTP
             /\ \A c \in Otps :
                   ENABLED (\E exp \in ApiErrors : SubmitOtpFails(c, exp))

\* the OTP step has failed to connect after the phone step had done so earlier
C9_Witness ==
    /\ flow_event.op = "submit_otp"
    /\ flow_event.api = "error"
    /\ step_id = CONF_OTP
    /\ form_errors = <<"base", "cannot_connect">>
    /\ otp # Null

-----------------------------------------------------------------------------
(* Properties of the mapping tables *)

\* C10: the fan-speed tables and the HVAC-mode tables are inverse bijections:
\* host fan modes and vendor fan speeds map onto each other and back, and so do
\* the host HVAC modes other than OFF and the vendor modes.
C10_TablesAreInverseBijections ==
    /\ DOMAIN FAN_HASS_TO_ELECTRA = attr_fan_modes
    /\ DOMAIN HVAC_MODE_HASS_TO_ELECTRA = attr_hvac_modes \ {HVACMode_OFF}
    /\ \A f \in attr_fan_modes :
          /\ FAN_HASS_TO_ELECTRA[f] \in DOMAIN FAN_ELECTRA_TO_HASS
          /\ FAN_ELECTRA_TO_HASS[FAN_HASS_TO_ELECTRA[f]] = f
    /\ \A m \in attr_hvac_modes \ {HVACMode_OFF} :
          /\ HVAC_MODE_HASS_TO_ELECTRA[m] \in DOMAIN HVAC_MODE_ELECTRA_TO_HASS
          /\ HVAC_MODE_ELECTRA_TO_HASS[HVAC_MODE_HASS_TO_ELECTRA[m]] = m
    /\ \A v \in DOMAIN FAN_ELECTRA_TO_HASS :
          /\ FAN_ELECTRA_TO_HASS[v] \in attr_fan_modes
          /\ FAN_HASS_TO_ELECTRA[FAN_ELECTRA_TO_HASS[v]] = v
    /\ \A v \in DOMAIN HVAC_MODE_ELECTRA_TO_HASS :
          /\ HVAC_MODE_ELECTRA_TO_HASS[v] \in attr_hvac_modes \ {HVACMode_OFF}
          /\ HVAC_MODE_HASS_TO_ELECTRA[HVAC_MODE_ELECTRA_TO_HASS[v]] = v
    \* the entity's own round trip: the fan speed a setter stored is displayed as
    \* the mode that was requested
    /\ ( /\ event.op = "set_state"
         /\ event.outcome = "acknowledged"
         /\ event.req[1] = "async_set_fan_mode" )
       => attrs.fan_mode = Some(event.req[2])

\* a fan mode and an HVAC mode went through the tables and back
C10_Witness ==
    /\ event.op = "set_state"
    /\ event.outcome = "acknowledged"
    /\ event.req[1] = "async_set_fan_mode"
    /\ event.req[2] = FAN_LOW
    /\ device.fan_speed = FAN_SPEED_LOW
    /\ attrs.fan_mode = Some(FAN_LOW)

\* the display attributes have just been re-derived from the device model
AttrsJustRefreshed == event.outcome \in {"updated", "acknowledged"}

\* C11: after every refresh of the display attributes the swing mode is 'both'
\* when both swing flags of the device are true, 'horizontal' when only the
\* horizontal one is, 'vertical' when only the vertical one is, and 'off' when
\* neither is.
C11_SwingModeFromFlags ==
    AttrsJustRefreshed =>
        /\ (device.horizontal_swing /\ device.vertical_swing)
              => attrs.swing_mode = Some(SWING_BOTH)
        /\ (device.horizontal_swing /\ ~device.vertical_swing)
              => attrs.swing_mode = Some(SWING_HORIZONTAL)
        /\ (~device.horizontal_swing /\ device.vertical_swing)
              => attrs.swing_mode = Some(SWING_VERTICAL)
        /\ (~device.horizontal_swing /\ ~device.vertical_swing)
              => attrs.swing_mode = Some(SWING_OFF)

\* a refresh has derived 'horizontal' from a device that a command left with the
\* horizontal swing flag alone
C11_Witness ==
    /\ AttrsJustRefreshed
    /\ event.req = <<"async_set_swing_mode", SWING_HORIZONTAL>>
    /\ device.horizontal_swing /\ ~device.vertical_swing
    /\ attrs.swing_mode = Some(SWING_HORIZONTAL)

\* C12: a poll that is not skipped and whose telemetry fetch succeeds resets the
\* consecutive-failure counter to zero and copies the device state into the
\* display attributes, so that the counter always equals the number of transport
\* failures since the last successful fetch (failRun).
C12_FetchSuccessResetsCounter ==
    [][ /\ (pcPoll = "fetching" /\ pcPoll' = "idle" /\ event'.msg = NoMsg)
            => /\ consecutive_failures' = 0
               /\ attrs' = UpdateDeviceAttrs(device')
        /\ consecutive_failures' = failRun' ]_vars

\* a command's await of set_state ends in this step
CommandEnds == pcCmd = "sending" /\ pcCmd' = "idle"

\* C13: a command whose set_state call returns a non-successful acknowledgment asks
\* the host to write state (the unchanged attributes) and then raises
\* HomeAssistantError; the display attributes, the consecutive-failure counter and
\* the last-command timestamp are as before, so no skip window is opened.
C13_NegativeAckWritesThenRaises ==
    [][ (/\ CommandEnds
         /\ event'.resp # Null
         /\ (event'.resp[1].status # STATUS_SUCCESS \/ event'.resp[1].res # STATUS_SUCCESS))
        => /\ event'.outcome = "HomeAssistantError"
           /\ event'.steps = <<"_async_write_ha_state", "raise">>
           /\ event'.written = Some(attrs)
           /\ attrs' = attrs
           /\ consecutive_failures' = consecutive_failures
           /\ last_state_update' = last_state_update
           /\ InSkipWindow(last_state_update', now') = InSkipWindow(last_state_update, now)
      ]_vars

\* a command has just ended on an acknowledgment whose inner result is a failure,
\* issued on an entity that has display attributes and a failed poll counted
C13_Witness ==
    /\ event.op = "set_state"
    /\ event.outcome = "HomeAssistantError"
    /\ event.resp = Some([status |-> STATUS_SUCCESS, res |-> STATUS_SUCCESS + 1])
    /\ event.wrote
    /\ attrs # NoAttrs
    /\ consecutive_failures > 0
    /\ last_state_update = 0

\* C14: a command acknowledged with both the outer status and the inner result
\* successful re-derives the display attributes from the device model, then
\* records the clock as the last-command timestamp, then asks the host to write
\* state (which therefore reads the new attributes); no other outcome of a command,
\* and no other step, records a timestamp.
C14_SuccessRefreshesStampsWrites ==
    [][ /\ CommandEnds =>
            IF /\ event'.resp # Null
               /\ event'.resp[1].status = STATUS_SUCCESS
               /\ event'.resp[1].res = STATUS_SUCCESS
            THEN /\ event'.outcome = "acknowledged"
                 /\ attrs' = UpdateDeviceAttrs(device)
                 /\ last_state_update' = now
                 /\ event'.written = Some(UpdateDeviceAttrs(device))
                 /\ event'.steps = <<"_update_device_attrs", "_last_state_update",
                                     "_async_write_ha_state">>
            ELSE /\ event'.outcome # "acknowledged"
                 /\ last_state_update' = last_state_update
        /\ (last_state_update' # last_state_update /\ last_state_update' # 0)
             => (CommandEnds /\ event'.outcome = "acknowledged")
      ]_vars

\* a command has just been acknowledged: the attributes differ from those of the
\* last poll, the host has read the new ones and the timestamp is the clock
C14_Witness ==
    /\ event.op = "set_state"
    /\ event.outcome = "acknowledged"
    /\ event.req = <<"async_set_hvac_mode", HVACMode_HEAT>>
    /\ attrs.hvac_mode = Some(HVACMode_HEAT)
    /\ event.written = Some(attrs)
    /\ last_state_update = now

\* a poll has just completed its connectivity check (it was neither skipped nor
\* ended by a transport failure)
PollCompleted == event.op = "async_update" /\ event.outcome \in {"updated", "unavailable"}

\* C15: availability warnings alternate: a poll logs 'is not available' only if
\* the last availability warning was not 'is not available', logs 'is now
\* available' only if the last one was not 'is now available', and logs no
\* availability warning when it finds the connectivity that the previous completed
\* poll found.
C15_AvailabilityWarningsAlternate ==
    [][ PollCompleted' =>
          /\ event'.warn = "not_available" => lastWarn # "not_available"
          /\ event'.warn = "now_available" => lastWarn # "now_available"
          /\ (lastFound # Null
                 /\ lastFound[1] = ~is_disconnected(device', UNAVAILABLE_THRESH_SEC))
               => event'.warn = "none"
          /\ event'.warn \in {"none", "not_available", "now_available"}
      ]_vars

\* a second poll in a row has found the device disconnected and logged nothing,
\* the warning having been logged by the poll before it
C15_Witness ==
    /\ PollCompleted
    /\ event.outcome = "unavailable"
    /\ event.warn = "none"
    /\ lastWarn = "not_available"
    /\ lastFound = Some(FALSE)
    /\ pcPoll = "idle"
    /\ ~skip_update
    /\ consecutive_failures > 0

\* C16: a poll that started its telemetry fetch before a command was acknowledged
\* and whose fetch ends after the command has succeeded, while the command's
\* propagation-delay window is still open, neither overwrites the display
\* attributes the command wrote nor clears the command's timestamp.
C16_InterleavedPollKeepsCommandState ==
    [][ (/\ pcPoll = "fetching"
         /\ pcPoll' = "idle"
         /\ last_state_update # 0
         /\ now < last_state_update + API_DELAY)
        => /\ attrs' = attrs
           /\ last_state_update' = last_state_update
      ]_vars

\* C17: after a setter that completes successfully with no poll or other command
\* interleaved, the matching display attribute is the requested value: the swing
\* mode, fan mode, preset and HVAC mode (OFF included) that were requested, and
\* int(t) for a requested temperature t (event.req[2] is t in half degrees).
C17_SetterRoundTrip ==
    (event.op = "set_state" /\ event.outcome = "acknowledged") =>
        LET setter == event.req[1]
            arg == event.req[2]
        IN
        /\ setter = "async_set_swing_mode" => attrs.swing_mode = Some(arg)
        /\ setter = "async_set_fan_mode" => attrs.fan_mode = Some(arg)
        /\ setter = "async_set_preset_mode" => attrs.preset_mode = Some(arg)
        /\ setter = "async_set_hvac_mode" => attrs.hvac_mode = Some(arg)
        /\ setter = "async_set_temperature" => attrs.target_temperature = Some(arg \div 2)

\* set_swing_mode('vertical') has just been acknowledged and the refresh shows it
C17_Witness ==
    /\ event.op = "set_state"
    /\ event.outcome = "acknowledged"
    /\ event.req = <<"async_set_swing_mode", SWING_VERTICAL>>
    /\ attrs.swing_mode = Some(SWING_VERTICAL)
    /\ device.vertical_swing /\ ~device.horizontal_swing

\* C18: the phone number of a created configuration entry is never one that is
\* already configured, and the flow's unique id is that phone number, also when
\* the number was submitted on a second or later attempt of the phone step.
C18_EntryPhoneIsUniqueAndNew ==
    entry # Null =>
        /\ entry[1].phone_number \notin ConfiguredPhones
        /\ unique_id = Some(entry[1].phone_number)

\* C19: after every poll that is neither skipped nor ended by a transport failure,
\* the availability attribute says whether the device is connected, that is,
\* whether its contact age does not exceed UNAVAILABLE_THRESH_SEC, whatever the
\* device's connectivity was when the entity was created.
C19_AvailableTracksConnectivity ==
    PollCompleted =>
        (attr_available <=> ~(device.time_delta > UNAVAILABLE_THRESH_SEC))

\* a poll has found connected a device that an earlier poll had found disconnected
C19_Witness ==
    /\ PollCompleted
    /\ event.warn = "now_available"
    /\ device.time_delta <= UNAVAILABLE_THRESH_SEC
    /\ attr_available
    /\ lastWarn = "now_available"

\* C20: after every refresh of the display attributes the HVAC mode is OFF exactly
\* when the device power is off, and is the table image of the vendor mode
\* otherwise; and whenever the HVAC mode is OFF the HVAC action is OFF too, for
\* every vendor mode, AUTO included.
C20_HvacOffModeAndAction ==
    AttrsJustRefreshed =>
        /\ attrs.hvac_mode = Some(HVACMode_OFF) <=> ~device.is_on
        /\ device.is_on => attrs.hvac_mode = Some(HVAC_MODE_ELECTRA_TO_HASS[device.mode])
        /\ attrs.hvac_mode = Some(HVACMode_OFF) => attrs.hvac_action = Some(HVACAction_OFF)

\* a poll starts in this step
PollStarts == phase = "running" /\ pcPoll = "idle" /\ event'.op = "async_update"

\* C21: the skip window always ends. A poll that starts with a timestamp recorded
\* and the clock at or after the timestamp plus API_DELAY is not skipped: it
\* clears the timestamp and starts a telemetry fetch. A poll is skipped only
\* inside the window of a recorded timestamp, a timestamp is recorded only by a
\* command that succeeds, and a command that fails leaves the timestamp as it
\* was. With the clock advancing and polls being scheduled, a recorded timestamp
\* is eventually cleared.
C21_SkipWindowEnds ==
    /\ [][ /\ (PollStarts /\ last_state_update # 0
                  /\ now >= last_state_update + API_DELAY)
              => /\ event'.outcome = "fetching"
                 /\ pcPoll' = "fetching"
                 /\ last_state_update' = 0
           /\ (PollStarts /\ event'.outcome = "skipped")
              => /\ last_state_update # 0
                 /\ now < last_state_update + API_DELAY
           /\ (PollStarts /\ last_state_update = 0)
              => event'.outcome # "skipped"
           /\ (last_state_update = 0 /\ last_state_update' # 0)
              => (CommandEnds /\ event'.outcome = "acknowledged")
           /\ (CommandEnds /\ event'.outcome # "acknowledged")
              => last_state_update' = last_state_update
         ]_vars
    /\ (last_state_update # 0) ~> (last_state_update = 0)

\* a poll that started after a command's window had run out (the clock advances
\* only through an open window) has cleared the timestamp and is fetching telemetry
C21_Witness ==
    /\ last_state_update = 0
    /\ now >= 1 + API_DELAY
    /\ pcPoll = "fetching"
    /\ event.outcome = "fetching"

====
